---- MODULE Spec2Model ----
(***************************************************************************)
(* Regularized majority vote on the mid-sagittal section of the corpus     *)
(* callosum (regularized_vote.py): command line, channel stacking, the     *)
(* per-voxel regularizer, the voter and the slab extension.                *)
(*                                                                         *)
(* Voxels are 0-based triples <<x, y, z>>.  A vote vector is a sequence of  *)
(* K naturals.  A regularized vector is kept exactly, as numerators over   *)
(* one denominator: [num |-> <<n1, ..., nK>>, den |-> d] is n_c / d.        *)
(* The rounding of floating-point products and the width of the array's    *)
(* dtype are not modelled: the track densities are small naturals.         *)
(* The volumes that are read share one grid and are readable.              *)
(***************************************************************************)
EXTENDS Integers, Sequences, FiniteSets, TLC

VARIABLES
    pc,              \* where the script is
    argv,            \* the command line given to main
    args,            \* the namespace parse_command_line returns
    exit_code,       \* the process's exit status (-1 while running)
    files_read,      \* number of volumes read with aims.read
    files_written,   \* names of the volumes written with aims.write
    shape,           \* arr_cc.shape = tdi_array.shape[0:3]
    arr_cc,          \* the mask
    tdi_volumes,     \* the track density images as read
    tdi_array,       \* the stacked 4D array, zeroed outside the mask
    tab,             \* zip(tab_x, tab_y, tab_z): the mask voxels, C order
    pos,             \* index in tab of the next voxel of the loop
    result,          \* the label volume
    calls,           \* voxel -> what regularize_tdis_at did when called there
    central_x,       \* the central slice of the slab
    extended_result  \* the extended label volume

vars == <<pc, argv, args, exit_code, files_read, files_written, shape, arr_cc,
          tdi_volumes, tdi_array, tab, pos, result, calls, central_x,
          extended_result>>

(***************************************************************************)
(* Bounds of the model.                                                    *)
(***************************************************************************)
MaxDim == 3     \* each grid extent is in 1..MaxDim
MaxVote == 1    \* each track density value is in 0..MaxVote
MaxTdi == 2     \* at most MaxTdi track density images on the command line

(***************************************************************************)
(* Module-level constants of the script.                                   *)
(***************************************************************************)
CONTRIB_CENTRAL_VOXEL == [num |-> 1, den |-> 2]
CONTRIB_NEIGHBOURS == [num |-> 1, den |-> 2]
NO_VOTE == 2
OUTPUT_LABELS == <<80, 70, 60, 50, 40, 30, 20>>
EXTENSION == 3
\* default=2 of the option --no-vote-label
NO_VOTE_LABEL_DEFAULT == 2
\* status of the exit of parser.error, of an uncaught exception, of success
EXIT_USAGE == 2
EXIT_EXCEPTION == 1
EXIT_OK == 0

Max(a, b) == IF a >= b THEN a ELSE b
Min(a, b) == IF a <= b THEN a ELSE b

\* Python's range(lo, hi)
Range(lo, hi) == lo .. (hi - 1)

Voxels(shp) == (0 .. shp[1] - 1) \X (0 .. shp[2] - 1) \X (0 .. shp[3] - 1)

\* C order of the coordinates, the order of numpy's nonzero() and of the
\* nested loops
LexLess(a, b) ==
    \/ a[1] < b[1]
    \/ a[1] = b[1] /\ a[2] < b[2]
    \/ a[1] = b[1] /\ a[2] = b[2] /\ a[3] < b[3]

LexMin(S) == CHOOSE c \in S : \A d \in S : d = c \/ LexLess(c, d)

\* The voxels of the grid, in C order
VoxelSeq(shp) ==
    [i \in 1 .. shp[1] * shp[2] * shp[3] |->
        <<(i - 1) \div (shp[2] * shp[3]),
          ((i - 1) \div shp[3]) % shp[2],
          (i - 1) % shp[3]>>]

ZeroVector(K) == [c \in 1 .. K |-> 0]

RECURSIVE SeqMax(_)
SeqMax(v) ==
    IF Len(v) = 1 THEN v[1] ELSE Max(v[1], SeqMax(Tail(v)))

\* numpy's ndarray.max() of one voxel's vector
VecMax(v) == SeqMax(v)

RECURSIVE VecSum(_, _, _)
VecSum(arr, S, K) ==
    IF S = {} THEN ZeroVector(K)
    ELSE LET c == CHOOSE d \in S : TRUE
             rest == VecSum(arr, S \ {c}, K)
         IN [ch \in 1 .. K |-> arr[c][ch] + rest[ch]]

(***************************************************************************)
(* regularize_tdis_at                                                      *)
(***************************************************************************)

\* Mutant of NeighbourRange: min(c+1, ...) for min(c+2, ...), a loop that
\* stops before the upper neighbour
NeighbourRangeShort(c, bound) == Range(Max(c - 1, 0), Min(c + 1, bound + 1))

\* range(max(c-1, 0), min(c+2, bound+1)): the loop bounds of one axis
NeighbourRange(c, bound) == Range(Max(c - 1, 0), Min(c + 2, bound + 1))

\* The cells the three nested loops go through.  All three upper bounds are
\* taken from tdi_array.shape[0].
Visited(shp, x, y, z) ==
    NeighbourRange(x, shp[1]) \X NeighbourRange(y, shp[1])
        \X NeighbourRange(z, shp[1])

InGrid(c, shp) ==
    /\ 0 <= c[1] /\ c[1] < shp[1]
    /\ 0 <= c[2] /\ c[2] < shp[2]
    /\ 0 <= c[3] /\ c[3] < shp[3]

\* "if tdi_array[i, j, k].max() != 0: if (i, j, k) != (x, y, z)"
Contributing(arr, cells, x, y, z) ==
    {c \in cells : VecMax(arr[c]) # 0 /\ c # <<x, y, z>>}

\* tdi_array[x, y, z] * CONTRIB_CENTRAL_VOXEL
\*     + neighbour_contrib * (CONTRIB_NEIGHBOURS / neighbour_count)
Weighted(centre, neighbour_contrib, neighbour_count) ==
    LET a == CONTRIB_CENTRAL_VOXEL
        b == CONTRIB_NEIGHBOURS
    IN [num |-> [ch \in DOMAIN centre |->
                   centre[ch] * a.num * b.den * neighbour_count
                   + neighbour_contrib[ch] * b.num * a.den],
        den |-> a.den * b.den * neighbour_count]

\* "return tdi_array[x, y, z]"
Unscaled(centre) == [num |-> centre, den |-> 1]

\* Mutant of regularize_tdis_at: neighbour_contrib is a view of
\* tdi_array[x, y, z] instead of a fresh array, so the sum is accumulated in
\* the vote field
regularize_tdis_at_aliased(arr, shp, x, y, z) ==
    LET cells == Visited(shp, x, y, z)
        outside == {c \in cells : ~InGrid(c, shp)}
        K == Len(arr[<<x, y, z>>])
    IN IF outside # {}
       THEN LET bad == LexMin(outside)
            IN [raised |-> TRUE,
                cell |-> bad,
                reads |-> {c \in cells : LexLess(c, bad)},
                summed |-> {},
                value |-> Unscaled(ZeroVector(K)),
                tdi_array |-> arr]
       ELSE LET contrib == Contributing(arr, cells, x, y, z)
                neighbour_count == Cardinality(contrib)
                neighbour_contrib == VecSum(arr, contrib, K)
                acc == [ch \in 1 .. K |->
                           arr[<<x, y, z>>][ch] + neighbour_contrib[ch]]
            IN [raised |-> FALSE,
                cell |-> <<>>,
                reads |-> cells \cup {<<x, y, z>>},
                summed |-> contrib,
                value |-> IF neighbour_count # 0
                          THEN Weighted(acc, acc, neighbour_count)
                          ELSE Unscaled(acc),
                tdi_array |-> [arr EXCEPT ![<<x, y, z>>] = acc]]

\* The call regularize_tdis_at(tdi_array, x, y, z).  Reading a cell outside
\* the array raises IndexError: the loops stop at the first such cell in
\* loop order.  Otherwise the call returns `value`; the array is not
\* written to.
regularize_tdis_at(arr, shp, x, y, z) ==
    LET cells == Visited(shp, x, y, z)
        outside == {c \in cells : ~InGrid(c, shp)}
        K == Len(arr[<<x, y, z>>])
    IN IF outside # {}
       THEN LET bad == LexMin(outside)
            IN [raised |-> TRUE,
                cell |-> bad,
                reads |-> {c \in cells : LexLess(c, bad)},
                summed |-> {},
                value |-> Unscaled(ZeroVector(K)),
                tdi_array |-> arr]
       ELSE LET contrib == Contributing(arr, cells, x, y, z)
                neighbour_count == Cardinality(contrib)
                neighbour_contrib == VecSum(arr, contrib, K)
            IN [raised |-> FALSE,
                cell |-> <<>>,
                reads |-> cells \cup {<<x, y, z>>},
                summed |-> contrib,
                value |-> IF neighbour_count # 0
                          THEN Weighted(arr[<<x, y, z>>], neighbour_contrib,
                                        neighbour_count)
                          ELSE Unscaled(arr[<<x, y, z>>]),
                tdi_array |-> arr]

(***************************************************************************)
(* The voter                                                               *)
(***************************************************************************)

\* Mutant of ArgMax: the last index of the maximum
ArgMaxLast(v) == CHOOSE i \in DOMAIN v :
    /\ \A j \in DOMAIN v : v[j] <= v[i]
    /\ \A j \in DOMAIN v : j > i => v[j] < v[i]

\* numpy.argmax: the first index of the maximum
ArgMax(v) == CHOOSE i \in DOMAIN v :
    /\ \A j \in DOMAIN v : v[j] <= v[i]
    /\ \A j \in DOMAIN v : j < i => v[j] < v[i]

\* lines 72-76: the label of a voxel from its regularized vector
VoteLabel(value, output_labels) ==
    LET winner_index == ArgMax(value.num)
    IN IF value.num[winner_index] = 0 THEN NO_VOTE
       ELSE output_labels[winner_index]

\* Mutant of Nonzero: the loop goes through every voxel of the grid
NonzeroAll(mask, shp) == VoxelSeq(shp)

\* arr_cc.nonzero(): the coordinates of the mask, in C order
Nonzero(mask, shp) ==
    LET IsNonzero(v) == mask[v] # 0 IN SelectSeq(VoxelSeq(shp), IsNonzero)

\* numpy.concatenate(..., axis=3) then tdi_array[arr_cc == 0] = 0
Stack(volumes, mask, shp, K) ==
    [v \in Voxels(shp) |-> IF mask[v] = 0 THEN ZeroVector(K) ELSE volumes[v]]

(***************************************************************************)
(* The slab extension                                                      *)
(***************************************************************************)

\* int(numpy.median(tab_x)): tab_x is sorted (C order); the mean of the two
\* middle values of an even count is truncated by int()
MedianInt(coords) ==
    LET n == Len(coords)
    IN IF n % 2 = 1 THEN coords[(n + 1) \div 2][1]
       ELSE (coords[n \div 2][1] + coords[n \div 2 + 1][1]) \div 2

\* The indices a Python slice start:stop selects on an axis of length len:
\* a negative bound counts from the end, then both are clipped to 0..len
SliceBound(b, len) == IF b < 0 THEN Max(b + len, 0) ELSE Min(b, len)

SliceIndices(start, stop, len) ==
    Range(SliceBound(start, len), SliceBound(stop, len))

\* The cells extended_result[central_x-EXTENSION:central_x+EXTENSION+1,
\* tab_y, tab_z] addresses
SlabCells(central, coords, shp) ==
    {c \in Voxels(shp) :
        /\ c[1] \in SliceIndices(central - EXTENSION,
                                 central + EXTENSION + 1, shp[1])
        /\ \E i \in DOMAIN coords : coords[i][2] = c[2] /\ coords[i][3] = c[3]}

\* The outcomes of the assignment of result[tab_x, tab_y, tab_z] to those
\* cells.  A cell whose (y, z) occurs more than once in (tab_y, tab_z) is
\* set more than once, and numpy leaves the order of these unspecified: the
\* cell ends with the label of any one of the mask voxels of its column.
ExtendedResults(res, central, coords, shp) ==
    LET cells == SlabCells(central, coords, shp)
        Sources(c) == {x \in 0 .. shp[1] - 1 :
                          \E i \in DOMAIN coords :
                              coords[i] = <<x, c[2], c[3]>>}
        several == {c \in cells : Cardinality(Sources(c)) > 1}
        picks == {pick \in [several -> 0 .. shp[1] - 1] :
                     \A c \in several : pick[c] \in Sources(c)}
    IN {[v \in Voxels(shp) |->
            IF v \in several THEN res[<<pick[v], v[2], v[3]>>]
            ELSE IF v \in cells
                 THEN res[<<CHOOSE x \in Sources(v) : TRUE, v[2], v[3]>>]
                 ELSE res[v]] :
        pick \in picks}

(***************************************************************************)
(* The command line                                                        *)
(***************************************************************************)

\* The texts of the label arguments, and int() of them; "x" is no integer
LabelText == <<"80", "70", "60", "50", "40", "30", "20">>
NoVoteText == {"5", "x"}

IntOf(text) ==
    IF \E i \in DOMAIN LabelText : LabelText[i] = text
    THEN OUTPUT_LABELS[CHOOSE i \in DOMAIN LabelText : LabelText[i] = text]
    ELSE IF text = "5" THEN 5 ELSE -1

IsInt(text) == text = "5" \/ \E i \in DOMAIN LabelText : LabelText[i] = text

\* A command line: the number of positional arguments, the values after
\* --output-labels and the value after --no-vote-label, when given
Argvs ==
    [npos : 0 .. MaxTdi + 2,
     output_labels :
         {[given |-> FALSE, values |-> <<>>]}
         \cup {[given |-> TRUE, values |-> SubSeq(LabelText, 1, n)] :
                  n \in 0 .. MaxTdi + 1}
         \cup {[given |-> TRUE, values |-> <<"80", "x">>]},
     no_vote_label :
         {[given |-> FALSE, value |-> ""]}
         \cup {[given |-> TRUE, value |-> t] : t \in NoVoteText}]

\* len(args.tdi): what is left of the positional arguments after result_dir
\* and subject
TdiCount(cmd) == Max(cmd.npos - 2, 0)

\* parser.parse_args: argparse itself calls parser.error when result_dir or
\* subject is missing or when type=int rejects a value
ArgparseRejects(cmd) ==
    \/ cmd.npos < 2
    \/ cmd.output_labels.given
       /\ \E i \in DOMAIN cmd.output_labels.values :
              ~IsInt(cmd.output_labels.values[i])
    \/ cmd.no_vote_label.given /\ ~IsInt(cmd.no_vote_label.value)

\* Mutant of TooFewImages: one image is accepted
TooFewImagesOffByOne(ntdi) == ntdi < 1

\* "if len(args.tdi) < 2"
TooFewImages(ntdi) == ntdi < 2

\* "elif len(args.output_labels) != len(args.tdi)"
LabelCountMismatch(nlabels, ntdi) == nlabels # ntdi

\* parse_command_line: the namespace, or error when parser.error is called
parse_command_line(cmd) ==
    LET ntdi == TdiCount(cmd)
        no_vote == IF cmd.no_vote_label.given
                   THEN IntOf(cmd.no_vote_label.value)
                   ELSE NO_VOTE_LABEL_DEFAULT
        labels == [i \in DOMAIN cmd.output_labels.values |->
                      IntOf(cmd.output_labels.values[i])]
        failed == [error |-> TRUE, tdi |-> 0, output_labels |-> <<>>,
                   no_vote_label |-> 0]
    IN IF ArgparseRejects(cmd) THEN failed
       ELSE IF TooFewImages(ntdi) THEN failed
       ELSE IF ~cmd.output_labels.given
            THEN [error |-> FALSE, tdi |-> ntdi,
                  output_labels |-> [i \in 1 .. ntdi |-> i],
                  no_vote_label |-> no_vote]
       ELSE IF LabelCountMismatch(Len(labels), ntdi) THEN failed
       ELSE [error |-> FALSE, tdi |-> ntdi, output_labels |-> labels,
             no_vote_label |-> no_vote]

(***************************************************************************)
(* The volumes on disk                                                     *)
(***************************************************************************)

Shapes == (1 .. MaxDim) \X (1 .. MaxDim) \X (1 .. MaxDim)

VoteVectors(K) == [1 .. K -> 0 .. MaxVote]

\* The track density away from the chosen voxels: none, or MaxVote on every
\* channel
Backgrounds(K) == {ZeroVector(K), [c \in 1 .. K |-> MaxVote]}

\* A mask of the voxels of S, with the votes vp at p, vq at q and bg at
\* every other voxel
Volumes(shp, S, p, vp, q, vq, bg) ==
    [shape |-> shp,
     mask |-> [v \in Voxels(shp) |-> IF v \in S THEN 1 ELSE 0],
     tdi |-> [v \in Voxels(shp) |->
                 IF v = p THEN vp ELSE IF v = q THEN vq ELSE bg]]

\* A 3x3x3 mask of all active voxels; channel 1 is 10 at (1,1,1) and 0
\* elsewhere; channel 2 is all zero
ScenarioA ==
    [shape |-> <<3, 3, 3>>,
     mask |-> [v \in Voxels(<<3, 3, 3>>) |-> 1],
     tdi |-> [v \in Voxels(<<3, 3, 3>>) |->
                 IF v = <<1, 1, 1>> THEN <<10, 0>> ELSE <<0, 0>>]]

(***************************************************************************)
(* The script                                                              *)
(***************************************************************************)

Init ==
    /\ pc = "start"
    /\ argv \in Argvs
    /\ args = [error |-> FALSE, tdi |-> 0, output_labels |-> <<>>,
               no_vote_label |-> 0]
    /\ exit_code = -1
    /\ files_read = 0
    /\ files_written = {}
    /\ shape = <<0, 0, 0>>
    /\ arr_cc = <<>>
    /\ tdi_volumes = <<>>
    /\ tdi_array = <<>>
    /\ tab = <<>>
    /\ pos = 0
    /\ result = <<>>
    /\ calls = <<>>
    /\ central_x = 0
    /\ extended_result = <<>>

\* main, line 124: a call of parser.error prints the usage and exits with
\* status 2
ParseCommandLine ==
    /\ pc = "start"
    /\ LET ns == parse_command_line(argv)
       IN /\ args' = ns
          /\ pc' = IF ns.error THEN "usage_error" ELSE "parsed"
          /\ exit_code' = IF ns.error THEN EXIT_USAGE ELSE exit_code
    /\ UNCHANGED <<argv, files_read, files_written, shape, arr_cc,
                   tdi_volumes, tdi_array, tab, pos, result, calls,
                   central_x, extended_result>>

\* regularized_vote, lines 51-67, on the volumes inp
Load(inp) ==
    /\ shape' = inp.shape
    /\ arr_cc' = inp.mask
    /\ tdi_volumes' = inp.tdi
    /\ tdi_array' = Stack(inp.tdi, inp.mask, inp.shape, args.tdi)
    /\ tab' = Nonzero(inp.mask, inp.shape)
    /\ result' = [v \in Voxels(inp.shape) |-> 0]
    /\ files_read' = 1 + args.tdi
    /\ pos' = 1
    /\ pc' = "vote"
    /\ UNCHANGED <<argv, args, exit_code, files_written, calls, central_x,
                   extended_result>>

\* The volumes the run finds: a mask of one voxel in any surrounding track
\* density, a mask of two voxels, a mask of every voxel or of none
\* with one voxel voted apart, or scenario A
ReadVolumes ==
    /\ pc = "parsed"
    /\ \/ \E shp \in Shapes : \E p \in Voxels(shp) :
            \E vp \in VoteVectors(args.tdi), bg \in Backgrounds(args.tdi) :
               \/ Load(Volumes(shp, {p}, p, vp, p, vp, bg))
               \/ Load(Volumes(shp, Voxels(shp), p, vp, p, vp, bg))
               \/ Load(Volumes(shp, {}, p, vp, p, vp, bg))
       \/ \E shp \in Shapes : \E p \in Voxels(shp) :
            \E q \in {c \in Voxels(shp) : LexLess(p, c)} :
               \E vp \in VoteVectors(args.tdi), vq \in VoteVectors(args.tdi) :
                  Load(Volumes(shp, {p, q}, p, vp, q, vq,
                               ZeroVector(args.tdi)))
       \/ args.tdi = 2 /\ Load(ScenarioA)

\* regularized_vote, lines 70-76: one turn of the loop on the mask voxels.
\* An IndexError raised in regularize_tdis_at is not caught: the script
\* ends with status 1.
VoteStep ==
    /\ pc = "vote"
    /\ pos <= Len(tab)
    /\ LET v == tab[pos]
           r == regularize_tdis_at(tdi_array, shape, v[1], v[2], v[3])
       IN /\ calls' = (v :> [raised |-> r.raised, cell |-> r.cell,
                               reads |-> r.reads, summed |-> r.summed,
                               value |-> r.value]) @@ calls
          /\ tdi_array' = r.tdi_array
          /\ IF r.raised
             THEN /\ pc' = "IndexError"
                  /\ exit_code' = EXIT_EXCEPTION
                  /\ UNCHANGED <<result, pos>>
             ELSE /\ result' = [result EXCEPT
                                  ![v] = VoteLabel(r.value, args.output_labels)]
                  /\ pos' = pos + 1
                  /\ UNCHANGED <<pc, exit_code>>
    /\ UNCHANGED <<argv, args, files_read, files_written, shape, arr_cc,
                   tdi_volumes, tab, central_x, extended_result>>

\* regularized_vote, lines 78-82
WriteResult ==
    /\ pc = "vote"
    /\ pos > Len(tab)
    /\ files_written' = files_written \cup {"segmented_cc_2dwi_mean"}
    /\ pc' = "extend"
    /\ UNCHANGED <<argv, args, exit_code, files_read, shape, arr_cc,
                   tdi_volumes, tdi_array, tab, pos, result, calls,
                   central_x, extended_result>>

\* regularized_vote, lines 86-90.  The median of no value is nan, which
\* int() refuses with a ValueError.
ExtendResult ==
    /\ pc = "extend"
    /\ IF tab = <<>>
       THEN /\ pc' = "ValueError"
            /\ exit_code' = EXIT_EXCEPTION
            /\ UNCHANGED <<central_x, extended_result>>
       ELSE /\ central_x' = MedianInt(tab)
            /\ extended_result' \in
                   ExtendedResults(result, MedianInt(tab), tab, shape)
            /\ pc' = "write_extended"
            /\ UNCHANGED exit_code
    /\ UNCHANGED <<argv, args, files_read, files_written, shape, arr_cc,
                   tdi_volumes, tdi_array, tab, pos, result, calls>>

\* regularized_vote, lines 91-95, and main's return of 0
WriteExtended ==
    /\ pc = "write_extended"
    /\ files_written' = files_written \cup {"segmented_cc_bis_2dwi_mean"}
    /\ pc' = "done"
    /\ exit_code' = EXIT_OK
    /\ UNCHANGED <<argv, args, files_read, shape, arr_cc, tdi_volumes,
                   tdi_array, tab, pos, result, calls, central_x,
                   extended_result>>

Next ==
    \/ ParseCommandLine
    \/ ReadVolumes
    \/ VoteStep
    \/ WriteResult
    \/ ExtendResult
    \/ WriteExtended

Spec == Init /\ [][Next]_vars

(***************************************************************************)
(* Properties                                                              *)
(***************************************************************************)

\* The volumes are in memory
Loaded == pc \notin {"start", "parsed", "usage_error"}

\* The calls of regularize_tdis_at that returned
Returned == {v \in DOMAIN calls : ~calls[v].raised}

\* The 26-connected neighbours of v inside the grid, and those of them with
\* a vote
Neighbours26(v, shp) ==
    {c \in Voxels(shp) :
        c # v /\ \A a \in 1 .. 3 : c[a] - v[a] \in {-1, 0, 1}}

ContributingNeighbours(arr, v, shp) ==
    {c \in Neighbours26(v, shp) : \E ch \in DOMAIN arr[c] : arr[c][ch] # 0}

AllZero(vec) == \A ch \in DOMAIN vec : vec[ch] = 0

\* C1: once the volumes are loaded, and up to the end of the run, every
\* voxel whose mask value is 0 has label 0 in the result volume and
\* regularize_tdis_at has not been called with its coordinates
C1_OutsideMaskUntouched ==
    Loaded =>
        \A v \in Voxels(shape) :
            arr_cc[v] = 0 => result[v] = 0 /\ v \notin DOMAIN calls

\* A finished run in which a voxel outside the mask had a track density and
\* a mask voxel next to it was labelled
C1_Witness ==
    /\ pc = "done"
    /\ \E v \in Voxels(shape) : \E w \in Neighbours26(v, shape) :
          /\ arr_cc[v] = 0
          /\ ~AllZero(tdi_volumes[v])
          /\ arr_cc[w] # 0
          /\ w \in Returned
          /\ result[w] # 0

\* C2: every call of regularize_tdis_at at a voxel with n > 0 contributing
\* in-bounds 26-connected neighbours returns, and returns on each channel
\* 0.5 * centre + 0.5 * (sum of those n neighbours) / n, having summed
\* exactly those n neighbours
C2_WeightingLaw ==
    \A v \in DOMAIN calls :
        LET N == ContributingNeighbours(tdi_array, v, shape)
            n == Cardinality(N)
            total == VecSum(tdi_array, N, Len(tdi_array[v]))
            r == calls[v]
        IN n > 0 =>
              /\ ~r.raised
              /\ r.summed = N
              /\ \A ch \in DOMAIN tdi_array[v] :
                    r.value.num[ch] * 2 * n
                        = (n * tdi_array[v][ch] + total[ch]) * r.value.den

\* C3: every call of regularize_tdis_at at a voxel with no contributing
\* in-bounds 26-connected neighbour returns the voxel's own vote vector,
\* unscaled
C3_FallbackLaw ==
    \A v \in DOMAIN calls :
        ContributingNeighbours(tdi_array, v, shape) = {} =>
            /\ ~calls[v].raised
            /\ calls[v].value = [num |-> tdi_array[v], den |-> 1]

\* C4: every voxel whose regularized vector is all zeros is given the label
\* of --no-vote-label (2 when the option is absent)
C4_NoVoteLabelOption ==
    \A v \in Returned :
        AllZero(calls[v].value.num) => result[v] = args.no_vote_label

\* C5: every voxel whose regularized vector has maximum m > 0 is given
\* output_labels[i], i the smallest channel index whose value is m
C5_FirstMaximumWins ==
    \A v \in Returned :
        LET val == calls[v].value.num
        IN \A i \in DOMAIN val :
              /\ val[i] > 0
              /\ \A j \in DOMAIN val : val[j] <= val[i]
              /\ \A j \in DOMAIN val : j < i => val[j] # val[i]
              => result[v] = args.output_labels[i]

\* A finished run with --output-labels in which two channels tie at a
\* positive value and the voxel has the label of the first
C5_Witness ==
    /\ pc = "done"
    /\ argv.output_labels.given
    /\ \E v \in Returned :
          /\ calls[v].value.num[1] = calls[v].value.num[2]
          /\ calls[v].value.num[1] > 0
          /\ calls[v].summed # {}
          /\ result[v] = args.output_labels[1]
          /\ args.output_labels[1] # args.output_labels[2]

\* The command line has fewer than two track density images, or
\* --output-labels with another number of values than images
Malformed(cmd) ==
    \/ TdiCount(cmd) < 2
    \/ cmd.output_labels.given
       /\ Len(cmd.output_labels.values) # TdiCount(cmd)

\* The script ended in parser.error, having read and written nothing
UsageError ==
    /\ pc = "usage_error"
    /\ exit_code = EXIT_USAGE
    /\ files_read = 0
    /\ files_written = {}

\* C6 as stated: the malformed command lines end in the usage error before
\* any volume is read or written, and no other command line does
C6_UsageErrorIffMalformed ==
    /\ pc # "start" /\ Malformed(argv) => UsageError
    /\ pc = "usage_error" => Malformed(argv)

\* C6 amended: the malformed command lines end in the usage error before
\* any volume is read or written; the only other command lines that do are
\* those argparse rejects itself (an option value that is no integer)
C6_UsageErrorIffMalformedOrRejected ==
    /\ pc # "start" /\ Malformed(argv) => UsageError
    /\ pc = "usage_error" =>
          /\ UsageError
          /\ \/ Malformed(argv)
             \/ argv.output_labels.given
                /\ \E i \in DOMAIN argv.output_labels.values :
                       ~IsInt(argv.output_labels.values[i])
             \/ argv.no_vote_label.given /\ ~IsInt(argv.no_vote_label.value)
    /\ pc \notin {"start", "usage_error"} => exit_code # EXIT_USAGE

\* Two images, three integer labels: the usage error, nothing read or
\* written
C6_Witness ==
    /\ UsageError
    /\ argv.npos = 4
    /\ argv.output_labels.given
    /\ Len(argv.output_labels.values) = 3
    /\ \A i \in 1 .. 3 : IsInt(argv.output_labels.values[i])
    /\ ~argv.no_vote_label.given

\* The run is on the volumes of scenario A
OnScenarioA ==
    /\ Loaded
    /\ shape = ScenarioA.shape
    /\ arr_cc = ScenarioA.mask
    /\ tdi_volumes = ScenarioA.tdi

FaceAdjacent(v, w) ==
    \E a \in 1 .. 3 :
        /\ v[a] - w[a] \in {-1, 1}
        /\ \A b \in (1 .. 3) \ {a} : v[b] = w[b]

C8_ReadsStayInGrid ==
    \A v \in DOMAIN calls :
        /\ ~calls[v].raised
        /\ calls[v].reads \subseteq Voxels(shape)
        /\ Neighbours26(v, shape) \subseteq calls[v].reads

\* The integers the median of the mask's first-axis coordinates rounds to
MedianRoundings(coords) ==
    LET n == Len(coords)
        twice == IF n % 2 = 1 THEN 2 * coords[(n + 1) \div 2][1]
                 ELSE coords[n \div 2][1] + coords[n \div 2 + 1][1]
    IN {twice \div 2, (twice + 1) \div 2}

\* C9: after the slab extension, for every slice s of the grid within
\* EXTENSION of the central slice and every mask voxel (x, y, z),
\* extended[s, y, z] = result[x, y, z]
C9_SlabReplicatesLabels ==
    pc \in {"write_extended", "done"} =>
        \E central \in MedianRoundings(tab) :
            \A s \in (central - EXTENSION) .. (central + EXTENSION) :
                s \in 0 .. shape[1] - 1 =>
                    \A i \in DOMAIN tab :
                        extended_result[<<s, tab[i][2], tab[i][3]>>]
                            = result[tab[i]]

\* C10: the voting pass leaves the vote field as the stacking step built
\* it, and the label of every voxel processed so far is the one computed
\* from that field alone, whatever was processed before it
C10_LabelsFromStackedFieldOnly ==
    Loaded =>
        LET stacked == Stack(tdi_volumes, arr_cc, shape, args.tdi)
        IN /\ tdi_array = stacked
           /\ \A v \in Returned :
                 result[v] =
                     VoteLabel(regularize_tdis_at(stacked, shape,
                                                  v[1], v[2], v[3]).value,
                               args.output_labels)

\* A finished run of two mask voxels, the second of which had the first as
\* contributing neighbour
C10_Witness ==
    /\ pc = "done"
    /\ Len(tab) = 2
    /\ tab[1] \in calls[tab[2]].summed
    /\ ~AllZero(tdi_array[tab[2]])
    /\ result[tab[1]] # NO_VOTE

====
